---- MODULE Spec2Model ----
(***************************************************************************)
(* qontinui-web-mcp: the tool call router (server.py), the authentication  *)
(* gate, the tool handlers (tools/*.py) and the API client (client/api.py) *)
(* with its read-modify-write operations on a project's configuration      *)
(* document.  Every await of an HTTP call is one step of a call, so calls  *)
(* of different callers interleave exactly at the awaits.                  *)
(***************************************************************************)
EXTENDS Integers, Sequences, FiniteSets, TLC

\* ------------------------------------------------------------------ bounds
\* most records the configuration document holds when an Add may start
MaxRecords == 2
\* most open transports the adapter may have lost track of when a close()
\* may start, and most close() calls in progress at once
MaxLeaked == 1
MaxClosing == 1

\* ------------------------------------------------------------- tool names
AUTH_TOOL_NAMES == {"auth_login", "auth_status", "auth_logout"}

PROJECTS_TOOL_NAMES ==
    {"list_projects", "create_project", "get_project", "update_project",
     "delete_project"}

CONFIGURATION_TOOL_NAMES ==
    {"export_configuration", "import_configuration", "validate_configuration",
     "list_workflows", "create_workflow", "update_workflow", "delete_workflow",
     "list_states", "create_state", "update_state", "delete_state",
     "list_images", "add_image", "delete_image"}

EXECUTION_TOOL_NAMES ==
    {"execute_workflow", "get_execution_status", "cancel_execution"}

CAPTURE_TOOL_NAMES ==
    {"create_capture_session", "list_capture_sessions", "get_capture_session",
     "upload_capture_screenshot", "add_capture_action",
     "complete_capture_session", "generate_workflow_from_capture",
     "list_learned_workflows", "approve_learned_workflow"}

VARIABLES_TOOL_NAMES ==
    {"list_variables", "create_variable", "get_variable", "update_variable",
     "delete_variable", "get_variable_history"}

TRANSITIONS_TOOL_NAMES ==
    {"list_transitions", "create_transition", "update_transition",
     "delete_transition"}

AUTHENTICATED_TOOL_NAMES ==
    PROJECTS_TOOL_NAMES \cup CONFIGURATION_TOOL_NAMES \cup EXECUTION_TOOL_NAMES
        \cup CAPTURE_TOOL_NAMES \cup VARIABLES_TOOL_NAMES
        \cup TRANSITIONS_TOOL_NAMES

\* the handler groups call_tool routes to, and the names routed to each
Groups ==
    {"auth", "projects", "configuration", "execution", "capture",
     "variables", "transitions"}

GroupNames(g) ==
    CASE g = "auth" -> AUTH_TOOL_NAMES
      [] g = "projects" -> PROJECTS_TOOL_NAMES
      [] g = "configuration" -> CONFIGURATION_TOOL_NAMES
      [] g = "execution" -> EXECUTION_TOOL_NAMES
      [] g = "capture" -> CAPTURE_TOOL_NAMES
      [] g = "variables" -> VARIABLES_TOOL_NAMES
      [] g = "transitions" -> TRANSITIONS_TOOL_NAMES
      [] OTHER -> {}

\* as Branches, but handle_execution_tool has no branch for cancel_execution
Branches_short(g) ==
    IF g = "execution" THEN {"execute_workflow", "get_execution_status"}
    ELSE GroupNames(g)

\* the names a group's handler has an "if name ==" branch for
Branches(g) ==
    CASE g = "auth" -> {"auth_login", "auth_status", "auth_logout"}
      [] g = "projects" ->
            {"list_projects", "create_project", "get_project",
             "update_project", "delete_project"}
      [] g = "configuration" ->
            {"export_configuration", "import_configuration",
             "validate_configuration", "list_workflows", "create_workflow",
             "update_workflow", "delete_workflow", "list_states",
             "create_state", "update_state", "delete_state", "list_images",
             "add_image", "delete_image"}
      [] g = "execution" ->
            {"execute_workflow", "get_execution_status", "cancel_execution"}
      [] g = "capture" ->
            {"create_capture_session", "list_capture_sessions",
             "get_capture_session", "upload_capture_screenshot",
             "add_capture_action", "complete_capture_session",
             "generate_workflow_from_capture", "list_learned_workflows",
             "approve_learned_workflow"}
      [] g = "variables" ->
            {"list_variables", "create_variable", "get_variable",
             "update_variable", "delete_variable", "get_variable_history"}
      [] g = "transitions" ->
            {"list_transitions", "create_transition", "update_transition",
             "delete_transition"}
      [] OTHER -> {}

\* call_tool's if/elif chain: the group of the first set that holds the name
GroupOf(name) ==
    IF name \in AUTH_TOOL_NAMES THEN "auth"
    ELSE IF name \in PROJECTS_TOOL_NAMES THEN "projects"
    ELSE IF name \in CONFIGURATION_TOOL_NAMES THEN "configuration"
    ELSE IF name \in EXECUTION_TOOL_NAMES THEN "execution"
    ELSE IF name \in CAPTURE_TOOL_NAMES THEN "capture"
    ELSE IF name \in VARIABLES_TOOL_NAMES THEN "variables"
    ELSE IF name \in TRANSITIONS_TOOL_NAMES THEN "transitions"
    ELSE "none"

\* the tools list_tools() registers
list_tools == AUTH_TOOL_NAMES \cup AUTHENTICATED_TOOL_NAMES

\* names a host may send that no tool list holds
UnknownNames == {"unknown_tool"}

\* ------------------------------------------------------------- the values
None == "None"
Absent == "absent"

Callers == {"c1", "c2"}

\* uuid.uuid4().hex[:8] of the ids generated, and record names
Ids == {"0000000a", "0000000b"}
Names == {"n1", "n2"}

\* tokens: the one the settings may hold, and those a login may return
SettingsTokens == {None, "", "T0"}
LoginTokens == {"", "T1"}

\* bool(self._access_token)
is_authenticated(tok) == tok # None /\ tok # ""

\* the four arrays of the configuration document
Arrays == {"workflows", "states", "transitions", "images"}

\* config.get(arr, [])
Get(config, arr) == IF arr \in DOMAIN config THEN config[arr] ELSE <<>>

\* as Put, but only the arrays of the configuration are kept
Put_arrays(config, arr, value) ==
    [k \in ((DOMAIN config) \cap Arrays) \cup {arr} |->
        IF k = arr THEN value ELSE config[k]]

\* config[arr] = value, on the copy of the configuration
Put(config, arr, value) ==
    [k \in (DOMAIN config) \cup {arr} |-> IF k = arr THEN value ELSE config[k]]

\* Project.configuration of a project created without one: {}
EmptyConfig == [k \in {} |-> <<>>]

\* how many records the configuration holds
RECURSIVE Total(_, _)
Total(config, keys) ==
    IF keys = {} THEN 0
    ELSE LET k == CHOOSE x \in keys : TRUE
         IN Len(config[k]) + Total(config, keys \ {k})

Records(config) == Total(config, (DOMAIN config) \cap Arrays)

\* the ids of an array, in order
IdsOf(seq) == [i \in 1..Len(seq) |-> seq[i].id]

\* as Without, but only the first element with the id is removed
RECURSIVE Without_first(_, _)
Without_first(seq, id) ==
    IF seq = <<>> THEN <<>>
    ELSE IF Head(seq).id = id THEN Tail(seq)
         ELSE <<Head(seq)>> \o Without_first(Tail(seq), id)

\* [x for x in seq if x.get("id") != id]
RECURSIVE Without(_, _)
Without(seq, id) ==
    IF seq = <<>> THEN <<>>
    ELSE IF Head(seq).id = id THEN Without(Tail(seq), id)
         ELSE <<Head(seq)>> \o Without(Tail(seq), id)

\* the index of the first element whose id is id, 0 when there is none
FirstIndex(seq, id) ==
    IF \E i \in 1..Len(seq) : seq[i].id = id
    THEN CHOOSE i \in 1..Len(seq) :
            seq[i].id = id /\ \A j \in 1..(i - 1) : seq[j].id # id
    ELSE 0

\* what the id a create handler generates starts with, by array
Prefix(arr) ==
    CASE arr = "workflows" -> "workflow-"
      [] arr = "states" -> "state-"
      [] arr = "images" -> "img-"
      [] arr = "transitions" -> "transition-"

\* f"{prefix}{uuid.uuid4().hex[:8]}", the two parts kept apart
NewId(arr, hex) == <<Prefix(arr), hex>>

\* no id
NoId == <<>>

\* ------------------------------------------------- the tools, by operation
ListTools == {"list_workflows", "list_states", "list_images", "list_transitions"}
AddTools == {"create_workflow", "create_state", "add_image", "create_transition"}
UpdateTools == {"update_workflow", "update_state", "update_transition"}
DeleteTools ==
    {"delete_workflow", "delete_state", "delete_image", "delete_transition"}

\* the tools that read or rewrite an array of the configuration document
NestedTools == ListTools \cup AddTools \cup UpdateTools \cup DeleteTools

\* the array a nested tool works on
ArrayOf(name) ==
    CASE name \in {"list_workflows", "create_workflow", "update_workflow",
                   "delete_workflow"} -> "workflows"
      [] name \in {"list_states", "create_state", "update_state",
                   "delete_state"} -> "states"
      [] name \in {"list_images", "add_image", "delete_image"} -> "images"
      [] OTHER -> "transitions"

\* tools whose handler asks for no argument
NoRequiredArgs == {"list_projects", "auth_status", "auth_logout"}

\* tools whose handler parses a required id with UUID(...) before its request
ParsesId ==
    (PROJECTS_TOOL_NAMES \ {"list_projects", "create_project"})
        \cup (CONFIGURATION_TOOL_NAMES \ {"validate_configuration"})
        \cup EXECUTION_TOOL_NAMES \cup TRANSITIONS_TOOL_NAMES

\* tools whose handler puts a required id in the request path as given
RawId == CAPTURE_TOOL_NAMES \cup VARIABLES_TOOL_NAMES

\* ---------------------------------------------------------- HTTP responses
\* what the backend (or the transport) answers to one request
Responses == {"200", "401", "404", "422", "500", "transport"}

\* what the login endpoint answers
LoginResponses == {"200", "400", "transport"}

\* the message of the exception _request raises on a response, None when it
\* returns
RequestError(resp) ==
    CASE resp = "401" -> "Authentication failed. Please login again."
      [] resp = "404" -> "Resource not found: path"
      [] resp = "422" -> "Validation error: detail"
      [] resp = "500" -> "API error (500): detail"
      [] resp = "transport" -> "Request failed: cause"
      [] OTHER -> None

\* the message of the exception login() raises on a response
LoginError(resp) ==
    CASE resp = "400" -> "Login failed: detail"
      [] resp = "transport" -> "cause"
      [] OTHER -> None

\* the class of the exception login() raises on a response: a response that
\* is not 200 is an AuthenticationError, a transport failure is httpx's own
LoginKind(resp) ==
    CASE resp = "400" -> "AuthenticationError"
      [] resp = "transport" -> "httpx.RequestError"
      [] OTHER -> None

\* the status codes _request tells apart, 0 when the transport failed and
\* there is no response
Statuses == {0, 200, 204, 401, 403, 404, 422, 500}

\* the shapes of a response body: no content, text that is not JSON, a JSON
\* object with a detail field, a JSON object without one, a JSON array
Bodies == {"empty", "text", "object_detail", "object", "list"}

\* request paths
Paths == {"/api/v1/projects", "/api/v1/auth/users/me"}

\* response.json() raises json.JSONDecodeError
JsonRaises(body) == body \in {"empty", "text"}

\* response.text
Text(body) ==
    CASE body = "empty" -> ""
      [] body = "text" -> "raw text"
      [] body = "object_detail" -> "{detail: reason}"
      [] body = "object" -> "{}"
      [] OTHER -> "[]"

\* an outcome of _request: kind is the class of the exception raised, or
\* "return"; read tells whether the body was decoded on the way
Raise(kind, message, read) ==
    [kind |-> kind, message |-> message, read |-> read, value |-> None]

Return(value, read) ==
    [kind |-> "return", message |-> <<>>, read |-> read, value |-> value]

\* response.json().get("detail", ...) when the status is 422: nothing
\* catches what the decoding raises
ValidationOutcome(body) ==
    IF JsonRaises(body)
    THEN Raise("json.JSONDecodeError", <<"Expecting value">>, TRUE)
    ELSE IF body = "list"
    THEN Raise("AttributeError",
               <<"'list' object has no attribute 'get'">>, TRUE)
    ELSE Raise("ValidationError",
               <<"Validation error: ",
                 IF body = "object_detail" THEN "reason"
                 ELSE "Validation error">>, TRUE)

\* the detail of a response of another status >= 400: the detail field,
\* response.text when there is none or the body cannot be decoded
GenericDetail(body) == IF body = "object_detail" THEN "reason" ELSE Text(body)

\* as request_outcome, but the detail is taken from the body before the
\* status is looked at
request_outcome_detail_first(status, body, path) ==
    IF status = 0
    THEN Raise("QontinuiClientError", <<"Request failed: ", "cause">>, FALSE)
    ELSE IF status >= 400
    THEN IF status = 404
         THEN Raise("NotFoundError", <<"Resource not found: ", path>>, TRUE)
         ELSE ValidationOutcome(body)
    ELSE Return("{}", FALSE)

\* _request after client.request(...): what it raises or returns on a
\* response of the status and body
\* as request_outcome, but the body of a response below 400 is decoded
\* before it is tested for being empty
request_outcome_decode_first(status, body, path) ==
    IF status = 0
    THEN Raise("QontinuiClientError", <<"Request failed: ", "cause">>, FALSE)
    ELSE IF status = 401
    THEN Raise("AuthenticationError",
               <<"Authentication failed. Please login again.">>, FALSE)
    ELSE IF status = 404
    THEN Raise("NotFoundError", <<"Resource not found: ", path>>, FALSE)
    ELSE IF status = 422 THEN ValidationOutcome(body)
    ELSE IF status >= 400
    THEN Raise("QontinuiClientError",
               <<"API error (", ToString(status), "): ",
                 GenericDetail(body)>>, TRUE)
    ELSE IF JsonRaises(body)
    THEN Raise("json.JSONDecodeError", <<"Expecting value">>, TRUE)
    ELSE Return(body, TRUE)

request_outcome(status, body, path) ==
    IF status = 0
    THEN Raise("QontinuiClientError", <<"Request failed: ", "cause">>, FALSE)
    ELSE IF status = 401
    THEN Raise("AuthenticationError",
               <<"Authentication failed. Please login again.">>, FALSE)
    ELSE IF status = 404
    THEN Raise("NotFoundError", <<"Resource not found: ", path>>, FALSE)
    ELSE IF status = 422 THEN ValidationOutcome(body)
    ELSE IF status >= 400
    THEN Raise("QontinuiClientError",
               <<"API error (", ToString(status), "): ",
                 GenericDetail(body)>>, TRUE)
    ELSE IF status = 204 \/ body = "empty" THEN Return("{}", FALSE)
    ELSE IF JsonRaises(body)
    THEN Raise("json.JSONDecodeError", <<"Expecting value">>, TRUE)
    ELSE Return(body, TRUE)

\* ------------------------------------------------------------ tool results
Fail(error) == [success |-> FALSE, error |-> error]

\* ensure_authenticated's answers
AutoLoginFailed(msg) ==
    Fail(<<"Not authenticated. Auto-login failed: ", msg>>)
UseAuthLogin == Fail(<<"Not authenticated. Use ", "auth_login", " first.">>)

\* call_tool's answer to a name of neither set
UnknownTool(name) == [error |-> <<"Unknown tool: ", name>>]

\* a handler's answer to a name it has no branch for
UnknownGroupTool(g, name) == [error |-> <<"Unknown ", g, " tool: ", name>>]

\* a handler's answer when a required argument is missing
ArgumentRequired == Fail(<<"argument is required">>)

NotFoundMessage(arr) ==
    CASE arr = "workflows" -> "Workflow not found: "
      [] arr = "states" -> "State not found: "
      [] OTHER -> "Transition not found: "

NoResult == [pending |-> TRUE]

\* ---------------------------------------------------------------- the state
VARIABLES
    settings,       \* Settings: access_token, has_credentials
    access_token,   \* QontinuiClient._access_token
    http,           \* QontinuiClient._client: the transport and its headers
    closing,        \* close() calls awaiting the transport's aclose()
    leaked,         \* open transports the adapter no longer references
    store,          \* the backend's copy of the project's configuration
    call,           \* per caller: the call_tool invocation in progress
    last_request,   \* the last request _request put on the wire: its
                    \* Authorization header and the token held when sent
    op              \* the operation last called on the adapter itself, with
                    \* what it was answered and what it returned or raised

vars ==
    <<settings, access_token, http, closing, leaked, store, call, last_request,
      op>>

\* no record found: next(..., None)
NoRecord == [id |-> NoId, name |-> None]

NoArgs == [valid |-> "ok", id |-> NoId, name |-> Absent]

NoPrev ==
    [name |-> None, id |-> NoId, given |-> None, success |-> FALSE,
     after |-> <<>>]

\* a call_tool invocation that has not started
NewCall ==
    [pc |-> "idle", name |-> None, args |-> NoArgs,
     fetched |-> EmptyConfig, body |-> EmptyConfig, existing |-> NoRecord,
     result |-> NoResult, raised |-> None, login_raised |-> None,
     entry_token |-> None, group |-> "none",
     handled |-> 0, gate |-> 0, auto_logins |-> 0, posts |-> 0,
     requests |-> 0, writes |-> 0, log |-> <<>>, pending |-> {},
     prev |-> NoPrev]

NoRequest == [auth |-> None, token |-> None]

\* no operation called on the adapter since its construction
NoOp ==
    [name |-> "init", before |-> None, resp |-> None, status |-> 0,
     body |-> None, path |-> None, kind |-> None, message |-> <<>>,
     read |-> FALSE, value |-> None]

InitCommon ==
    /\ settings \in [access_token : SettingsTokens, has_credentials : BOOLEAN]
    /\ access_token = settings.access_token
    /\ http = [state |-> "none", auth |-> None]
    /\ closing = 0
    /\ leaked = 0
    /\ call = [c \in Callers |-> NewCall]
    /\ last_request = NoRequest
    /\ op = NoOp

\* ------------------------------------------------------------ the transport
\* _get_headers: the Authorization header, None when there is none
get_headers(tok) == IF is_authenticated(tok) THEN tok ELSE None

\* _get_client: the transport is created on first use and when closed
get_http_client(h, tok) ==
    IF h.state = "open" THEN h
    ELSE [state |-> "open", auth |-> get_headers(tok)]

\* client.headers.update(self._get_headers())
headers_update(h, tok) ==
    IF get_headers(tok) # None THEN [h EXCEPT !.auth = get_headers(tok)] ELSE h

\* one request on the wire: by _request, or by login()'s client.post
Send(via, tok) ==
    LET h1 == get_http_client(http, tok)
        h2 == IF via = "_request" THEN headers_update(h1, tok) ELSE h1
    IN /\ http' = h2
       /\ last_request' = IF via = "_request"
                          THEN [auth |-> h2.auth, token |-> tok]
                          ELSE last_request
       /\ leaked' = leaked
       /\ closing' = closing

\* ----------------------------------------------------- the router's pieces
\* the call returns result to the host
Done(r, result) == [r EXCEPT !.pc = "done", !.result = result]

\* as Caught, but the result lacks success
Caught_bare(r, msg) == Done([r EXCEPT !.raised = msg], [error |-> <<msg>>])

\* an exception a handler's "except Exception" turns into str(e)
Caught(r, msg) == Done([r EXCEPT !.raised = msg], Fail(<<msg>>))

\* arguments.get(key, default)
ArgGet(args, key, default) ==
    IF key \in DOMAIN args THEN args[key] ELSE default

\* as NewRecord, but the name given is left out
NewRecord_unnamed(name, args) == [id |-> args.id, name |-> None]

\* as NewRecord, but a state is initial unless the arguments say otherwise
NewRecord_initial(name, args) ==
    IF name = "create_state"
    THEN [id |-> args.id, name |-> args.name,
          position |-> [x |-> 0, y |-> 0],
          isInitial |-> ArgGet(args, "is_initial", TRUE),
          isFinal |-> ArgGet(args, "is_final", FALSE)]
    ELSE [id |-> args.id, name |-> args.name]

\* the record a create tool builds from its arguments, args.id being the id
\* it generates; a state has its position (0.0, 0.0) and its two flags
NewRecord(name, args) ==
    IF name = "create_state"
    THEN [id |-> args.id, name |-> args.name,
          position |-> [x |-> 0, y |-> 0],
          isInitial |-> ArgGet(args, "is_initial", FALSE),
          isFinal |-> ArgGet(args, "is_final", FALSE)]
    ELSE [id |-> args.id, name |-> args.name]

\* the key of a create tool's result that holds the id and name created
ItemKey(name) ==
    CASE name = "create_workflow" -> "workflow"
      [] name = "create_state" -> "state"
      [] name = "add_image" -> "image"
      [] OTHER -> "transition"

\* what a handler returns when its requests all succeeded
Success(r) ==
    IF r.name = "validate_configuration" THEN [valid |-> TRUE]
    ELSE IF r.name \in ListTools
         THEN [success |-> TRUE, items |-> Get(r.fetched, ArrayOf(r.name))]
    ELSE IF r.name \in AddTools
         THEN ("success" :> TRUE)
              @@ (ItemKey(r.name) :> [id |-> NewRecord(r.name, r.args).id,
                                      name |-> NewRecord(r.name, r.args).name])
    ELSE [success |-> TRUE]

\* a handler of an authentication-required group is invoked: it checks its
\* required arguments and goes to its first await
handle_tool(r) ==
    LET r1 == [r EXCEPT !.handled = @ + 1, !.group = GroupOf(r.name)]
    IN IF r.name \notin Branches(GroupOf(r.name))
       THEN Done(r1, UnknownGroupTool(GroupOf(r.name), r.name))
       ELSE IF r.args.valid = "missing" THEN Done(r1, ArgumentRequired)
       ELSE IF r.args.valid = "malformed" /\ r.name \in ParsesId
            THEN Caught(r1, "badly formed hexadecimal UUID string")
       ELSE IF r.name \in {"update_workflow", "update_state"}
            THEN [r1 EXCEPT !.pc = "fetch1"]
       ELSE IF r.name \in NestedTools THEN [r1 EXCEPT !.pc = "fetch"]
       ELSE [r1 EXCEPT !.pc = "request"]

\* handle_auth_tool is invoked: the record it leaves and the token it leaves
handle_auth_tool(r, tok) ==
    LET r1 == [r EXCEPT !.handled = @ + 1, !.group = "auth"]
    IN CASE r.name \notin Branches("auth") ->
              <<Done(r1, UnknownGroupTool("auth", r.name)), tok>>
         [] r.name = "auth_login" ->
              IF r.args.valid = "missing"
              THEN <<Done(r1, Fail(<<"Email and password are required">>)), tok>>
              ELSE <<[r1 EXCEPT !.pc = "login"], tok>>
         [] r.name = "auth_status" ->
              IF ~is_authenticated(tok)
              THEN <<Done(r1, [authenticated |-> FALSE,
                               message |-> "Not authenticated."]), tok>>
              ELSE <<[r1 EXCEPT !.pc = "me"], tok>>
         [] OTHER -> <<Done(r1, [success |-> TRUE]), None>>

\* as ensure_authenticated, but lets the call through when no credentials are
\* configured
ensure_authenticated_open(r, tok, creds) ==
    LET r1 == [r EXCEPT !.gate = @ + 1]
    IN IF is_authenticated(tok) THEN handle_tool(r1)
       ELSE IF creds THEN [r1 EXCEPT !.pc = "gate_login"]
       ELSE handle_tool(r1)

\* ensure_authenticated, up to its await of login_with_settings
ensure_authenticated(r, tok, creds) ==
    LET r1 == [r EXCEPT !.gate = @ + 1]
    IN IF is_authenticated(tok) THEN handle_tool(r1)
       ELSE IF creds THEN [r1 EXCEPT !.pc = "gate_login"]
       ELSE Done(r1, UseAuthLogin)

\* as route, but the gate is consulted for the auth tools too
route_gate_all(r, tok, creds) ==
    IF r.name \in AUTH_TOOL_NAMES
    THEN handle_auth_tool([r EXCEPT !.gate = @ + 1], tok)
    ELSE IF r.name \in AUTHENTICATED_TOOL_NAMES
         THEN <<ensure_authenticated(r, tok, creds), tok>>
    ELSE <<Done(r, UnknownTool(r.name)), tok>>

\* as route, but the gate comes before the look-up of the name
route_gate_first(r, tok, creds) ==
    IF r.name \in AUTH_TOOL_NAMES THEN handle_auth_tool(r, tok)
    ELSE IF r.name \in AUTHENTICATED_TOOL_NAMES
         THEN <<ensure_authenticated(r, tok, creds), tok>>
    ELSE IF ~is_authenticated(tok) /\ creds
         THEN <<[r EXCEPT !.gate = @ + 1, !.pc = "gate_login"], tok>>
    ELSE <<Done(r, UnknownTool(r.name)), tok>>

\* call_tool's routing: the record and the token it leaves at its first
\* await, or at its return when it has none
route(r, tok, creds) ==
    IF r.name \in AUTH_TOOL_NAMES THEN handle_auth_tool(r, tok)
    ELSE IF r.name \in AUTHENTICATED_TOOL_NAMES
         THEN <<ensure_authenticated(r, tok, creds), tok>>
    ELSE <<Done(r, UnknownTool(r.name)), tok>>

\* the call repeats the caller's last successful Delete, or lists the
\* array of its last successful Add
Follows(prev, name, args) ==
    \/ prev.name = name /\ prev.id = args.id
    \/ /\ prev.name \in AddTools
       /\ name \in ListTools
       /\ ArrayOf(prev.name) = ArrayOf(name)

\* call_tool(name, arguments), up to its first await
call_tool(c, name, args) ==
    /\ call[c].pc = "idle"
    /\ LET r == [NewCall EXCEPT !.name = name, !.args = args,
                    !.entry_token = access_token,
                    !.prev = IF Follows(call[c].prev, name, args)
                             THEN call[c].prev ELSE NoPrev]
           out == route(r, access_token, settings.has_credentials)
       IN /\ call' = [call EXCEPT ![c] = out[1]]
          /\ access_token' = out[2]
    /\ UNCHANGED <<op, settings, http, closing, leaked, store, last_request>>

\* as login, but a failed login clears the token held
login_forget(resp, t, tok) ==
    IF resp = "200" THEN [token |-> t, raised |-> None]
    ELSE [token |-> None, raised |-> LoginError(resp)]

\* login(): the credential exchange; the token it leaves and what it raises
login(resp, t, tok) ==
    IF resp = "200" THEN [token |-> t, raised |-> None]
    ELSE [token |-> tok, raised |-> LoginError(resp)]

\* as after_auto_login, but a failed login is swallowed
after_auto_login_swallow(r, raised) == handle_tool(r)

\* ensure_authenticated after its login attempt, and call_tool after it
after_auto_login(r, raised) ==
    IF raised = None THEN handle_tool(r)
    ELSE Done([r EXCEPT !.raised = raised], AutoLoginFailed(raised))

\* ensure_authenticated resumes when login_with_settings answers
login_with_settings(c, resps) ==
    /\ call[c].pc = "gate_login"
    /\ \E resp \in resps, t \in LoginTokens :
        LET got == login(resp, t, access_token)
            r == [call[c] EXCEPT !.auto_logins = @ + 1, !.posts = @ + 1,
                                 !.login_raised = got.raised]
        IN /\ Send("login", access_token)
           /\ access_token' = got.token
           /\ call' = [call EXCEPT ![c] = after_auto_login(r, got.raised)]
    /\ UNCHANGED <<op, settings, store>>

\* auth_login: await client.login(email, password)
auth_login(c, resps) ==
    /\ call[c].pc = "login"
    /\ \E resp \in resps, t \in LoginTokens :
        LET got == login(resp, t, access_token)
            r == [call[c] EXCEPT !.posts = @ + 1]
        IN /\ Send("login", access_token)
           /\ access_token' = got.token
           /\ call' = [call EXCEPT ![c] =
                IF got.raised = None THEN [r EXCEPT !.pc = "me"]
                ELSE Caught(r, got.raised)]
    /\ UNCHANGED <<op, settings, store>>

\* auth_login and auth_status: await client.get_current_user()
get_current_user(c, resps) ==
    /\ call[c].pc = "me"
    /\ \E resp \in resps :
        LET r == [call[c] EXCEPT !.requests = @ + 1,
                    !.log = Append(@, [m |-> "GET", resp |-> resp])]
            msg == RequestError(resp)
        IN /\ Send("_request", access_token)
           /\ call' = [call EXCEPT ![c] =
                IF msg = None
                THEN Done(r, IF r.name = "auth_status"
                             THEN [authenticated |-> TRUE, user |-> "user"]
                             ELSE [success |-> TRUE, user |-> "user"])
                ELSE IF r.name = "auth_status"
                THEN Done([r EXCEPT !.raised = msg],
                          [authenticated |-> FALSE, error |-> <<msg>>])
                ELSE Caught(r, msg)]
    /\ UNCHANGED <<op, settings, access_token, store>>

\* the one request of a tool that is a pass-through to the backend
request(c, resps) ==
    /\ call[c].pc = "request"
    /\ \E resp \in resps :
        LET r == [call[c] EXCEPT !.requests = @ + 1,
                    !.log = Append(@, [m |-> "ANY", resp |-> resp])]
            msg == RequestError(resp)
        IN /\ Send("_request", access_token)
           /\ call' = [call EXCEPT ![c] =
                IF msg = None THEN Done(r, Success(r)) ELSE Caught(r, msg)]
    /\ UNCHANGED <<op, settings, access_token, store>>

\* ------------------------------------------- nested-collection operations
\* the handlers' "if <field> in arguments: existing[<field>] = ..."
Merge(rec, args) ==
    IF args.name # Absent THEN [rec EXCEPT !.name = args.name] ELSE rec

\* as AddBody, but the record is put first
AddBody_first(config, arr, rec) == Put(config, arr, <<rec>> \o Get(config, arr))

\* as AddBody, but a record whose id is already there is not appended
AddBody_unique(config, arr, rec) ==
    IF \E i \in 1..Len(Get(config, arr)) : Get(config, arr)[i].id = rec.id
    THEN Put(config, arr, Get(config, arr))
    ELSE Put(config, arr, Append(Get(config, arr), rec))

\* add_workflow, add_state, add_image, create_transition: the configuration
\* written back
AddBody(config, arr, rec) == Put(config, arr, Append(Get(config, arr), rec))

\* as UpdateBody, but every element with the id is replaced
UpdateBody_all(config, arr, id, rec) ==
    LET seq == Get(config, arr)
    IN Put(config, arr,
           [i \in 1..Len(seq) |-> IF seq[i].id = id THEN rec ELSE seq[i]])

\* update_workflow, update_state: the first element with the id is replaced
UpdateBody(config, arr, id, rec) ==
    LET seq == Get(config, arr)
    IN Put(config, arr, [seq EXCEPT ![FirstIndex(seq, id)] = rec])

\* as DeleteBody, but only the changed array is sent
DeleteBody_partial(config, arr, id) ==
    [k \in {arr} |-> Without(Get(config, arr), id)]

\* as DeleteBody, but the array is written back as it was fetched
DeleteBody_keep(config, arr, id) == Put(config, arr, Get(config, arr))

\* as DeleteBody, but an array that holds no element with the id is emptied
DeleteBody_clear(config, arr, id) ==
    IF Len(Without(Get(config, arr), id)) = Len(Get(config, arr))
    THEN Put(config, arr, <<>>)
    ELSE Put(config, arr, Without(Get(config, arr), id))

\* delete_workflow, delete_state, delete_image, delete_transition
DeleteBody(config, arr, id) == Put(config, arr, Without(Get(config, arr), id))

\* update_workflow and update_state handlers: get_workflows / get_states,
\* then the fields of the arguments are merged into the record found
get_existing(r, config) ==
    LET arr == ArrayOf(r.name)
        seq == Get(config, arr)
        i == FirstIndex(seq, r.args.id)
        r1 == [r EXCEPT !.fetched = config]
    IN IF i = 0 THEN Done(r1, Fail(<<NotFoundMessage(arr)>> \o r.args.id))
       ELSE [r1 EXCEPT !.pc = "fetch", !.existing = Merge(seq[i], r.args)]

\* after get_project answered: what the operation does with the document
on_project(r, config) ==
    LET arr == ArrayOf(r.name)
        seq == Get(config, arr)
        i == FirstIndex(seq, r.args.id)
        r1 == [r EXCEPT !.fetched = config]
        write(body) == [r1 EXCEPT !.pc = "write", !.body = body]
    IN CASE r.name \in ListTools -> Done(r1, Success(r1))
         [] r.name \in AddTools -> write(AddBody(config, arr,
                                             NewRecord(r.name, r.args)))
         [] r.name \in {"update_workflow", "update_state"} ->
              IF i = 0 THEN Caught(r1, NotFoundMessage(arr))
              ELSE write(UpdateBody(config, arr, r.args.id, r.existing))
         [] r.name = "update_transition" ->
              IF i = 0 THEN Done(r1, Fail(<<NotFoundMessage(arr)>> \o r.args.id))
              ELSE write(UpdateBody(config, arr, r.args.id,
                                    Merge(seq[i], r.args)))
         [] r.name = "delete_transition" ->
              IF Len(Without(seq, r.args.id)) = Len(seq)
              THEN Done(r1, Fail(<<NotFoundMessage(arr)>> \o r.args.id))
              ELSE write(DeleteBody(config, arr, r.args.id))
         [] OTHER -> write(DeleteBody(config, arr, r.args.id))

\* await client.get_project(...): the fetch of the project
get_project(c, resps) ==
    /\ call[c].pc \in {"fetch1", "fetch"}
    /\ \E resp \in resps :
        LET r == [call[c] EXCEPT !.requests = @ + 1,
                    !.log = Append(@, [m |-> "GET", resp |-> resp])]
            msg == RequestError(resp)
        IN /\ Send("_request", access_token)
           /\ call' = [call EXCEPT ![c] =
                IF msg # None THEN Caught(r, msg)
                ELSE IF r.pc = "fetch1" THEN get_existing(r, store)
                ELSE on_project(r, store)]
    /\ UNCHANGED <<op, settings, access_token, store>>

\* await client.update_project(..., ProjectUpdate(configuration=config)):
\* the backend replaces the configuration by the one sent; a request the
\* transport reports as failed may or may not have reached the backend
update_project(c, resps) ==
    /\ call[c].pc = "write"
    /\ \E resp \in resps :
        LET r == [call[c] EXCEPT !.requests = @ + 1, !.writes = @ + 1,
                    !.log = Append(@, [m |-> "PUT", resp |-> resp]),
                    !.pending = {d \in Callers \ {c} : call[d].pc = "write"}]
            msg == RequestError(resp)
        IN /\ Send("_request", access_token)
           /\ call' = [call EXCEPT ![c] =
                IF msg = None THEN Done(r, Success(r)) ELSE Caught(r, msg)]
           /\ \/ resp = "200" /\ store' = r.body
              \/ resp = "transport" /\ store' \in {store, r.body}
              \/ resp \notin {"200", "transport"} /\ store' = store
    /\ UNCHANGED <<op, settings, access_token>>

\* the result is handed to the host; the caller may call again
finish(c) ==
    /\ call[c].pc = "done"
    /\ LET r == call[c]
       IN call' = [call EXCEPT ![c] = [NewCall EXCEPT !.prev =
            IF r.name \in DeleteTools \cup AddTools
               /\ "success" \in DOMAIN r.result /\ r.result.success
            THEN [name |-> r.name, id |-> r.args.id, given |-> r.args.name,
                  success |-> TRUE, after |-> Get(r.body, ArrayOf(r.name))]
            ELSE NoPrev]]
    /\ UNCHANGED <<op, settings, access_token, http, closing, leaked, store,
                   last_request>>

\* ------------------------------------------------------------ the arguments
\* the arguments a tool may be called with: a required argument is there,
\* missing, or (an id) there and not a UUID; a nested tool gets the id it generates or targets and a name
ArgsOf(name, ids, names) ==
    LET valid == IF name \in NoRequiredArgs THEN {"ok"}
                 ELSE IF name \in ParsesId \cup RawId
                      THEN {"ok", "missing", "malformed"}
                 ELSE {"ok", "missing"}
        made == IF name \in NestedTools
                THEN {NewId(ArrayOf(name), h) : h \in ids}
                ELSE {NoId}
    IN IF name = "create_state"
       THEN [valid : valid, id : made, name : names]
            \cup [valid : valid, id : made, name : names, is_initial : {TRUE}]
            \cup [valid : valid, id : made, name : names, is_final : {TRUE}]
       ELSE IF name \in AddTools THEN [valid : valid, id : made, name : names]
       ELSE IF name \in UpdateTools
            THEN [valid : valid, id : made, name : names \cup {Absent}]
       ELSE IF name \in DeleteTools
            THEN [valid : valid, id : made, name : {Absent}]
       ELSE [valid : valid, id : {NoId}, name : {Absent}]

\* an Add starts only while the document is below the bound
MayStart(name) == name \in AddTools => Records(store) < MaxRecords

\* the responses the runs of the nested operations draw from
SomeResponses == {"200", "500", "transport"}

\* a configuration with a record in every array and, as an exported
\* configuration has, a version beside the arrays
FullConfig ==
    [k \in Arrays \cup {"version"} |->
        IF k = "version" THEN "1.0.0"
        ELSE <<[id |-> NewId(k, "0000000a"), name |-> "n0"]>>]

\* the conftest's project: every array there and empty
BlankConfig == [k \in Arrays |-> <<>>]

\* ------------------------------------------------------- the router's runs
\* one call of one caller, right after construction: every tool name and an
\* unknown one
Init ==
    /\ InitCommon
    /\ store \in {EmptyConfig, FullConfig}

CallAnyTool ==
    \E name \in list_tools \cup UnknownNames :
        \E args \in ArgsOf(name, {"0000000a"}, {"n2"}) :
            call_tool("c1", name, args)

Next ==
    \/ CallAnyTool
    \/ login_with_settings("c1", LoginResponses)
    \/ auth_login("c1", LoginResponses)
    \/ get_current_user("c1", Responses)
    \/ request("c1", Responses)
    \/ get_project("c1", Responses)
    \/ update_project("c1", Responses)

Spec == Init /\ [][Next]_vars

\* ---------------------------------------- one caller, call after call
InitSeq ==
    /\ InitCommon
    /\ settings = [access_token |-> "T0", has_credentials |-> FALSE]
    /\ store = BlankConfig

CallNestedTool ==
    \E name \in NestedTools :
        \E args \in ArgsOf(name, Ids, Names) :
            /\ args.valid = "ok"
            /\ name \in AddTools => args.name = "n1"
            /\ name \in UpdateTools => args.name # "n1"
            /\ MayStart(name)
            /\ call_tool("c1", name, args)

NextSeq ==
    \/ CallNestedTool
    \/ get_project("c1", SomeResponses)
    \/ update_project("c1", SomeResponses)
    \/ finish("c1")

SpecSeq == InitSeq /\ [][NextSeq]_vars

\* ------------------------------------------------- two callers, one call each
InitRace ==
    /\ InitCommon
    /\ settings = [access_token |-> "T0", has_credentials |-> FALSE]
    /\ store \in {EmptyConfig, FullConfig}

RaceNestedTools ==
    \E c \in Callers, name \in NestedTools :
        \E args \in ArgsOf(name, Ids, Names) :
            /\ args.valid = "ok"
            /\ name \in AddTools => args.name = "n1"
            /\ name \in UpdateTools => args.name # "n1"
            /\ call_tool(c, name, args)

NextRace ==
    \/ RaceNestedTools
    \/ \E c \in Callers : get_project(c, {"200", "500"})
    \/ \E c \in Callers : update_project(c, {"200", "500"})

SpecRace == InitRace /\ [][NextRace]_vars

\* --------------------------------------- the adapter, operation by operation
\* await client.login(email, password), called on the adapter
client_login ==
    /\ \E resp \in LoginResponses, t \in LoginTokens :
        LET got == login(resp, t, access_token)
        IN /\ Send("login", access_token)
           /\ access_token' = got.token
           /\ op' = [NoOp EXCEPT !.name = "login", !.before = access_token,
                        !.resp = resp, !.kind = LoginKind(resp),
                        !.message = IF got.raised = None THEN <<>>
                                    ELSE <<got.raised>>,
                        !.value = IF resp = "200" THEN t ELSE None]
    /\ UNCHANGED <<settings, store, call>>

\* as logout, but the token is kept
logout_keep ==
    /\ op' = [NoOp EXCEPT !.name = "logout", !.before = access_token]
    /\ UNCHANGED <<settings, access_token, http, closing, leaked, store, call,
                   last_request>>

\* client.logout()
logout ==
    /\ access_token' = None
    /\ op' = [NoOp EXCEPT !.name = "logout", !.before = access_token]
    /\ UNCHANGED <<settings, http, closing, leaked, store, call, last_request>>

\* as client_request, but a 401 response clears the token held
client_request_expire ==
    /\ \E status \in Statuses, path \in Paths :
       \E body \in IF status = 0 THEN {"empty"} ELSE Bodies :
        LET out == request_outcome(status, body, path)
        IN /\ Send("_request", access_token)
           /\ access_token' = IF status = 401 THEN None ELSE access_token
           /\ op' = [NoOp EXCEPT !.name = "_request", !.before = access_token,
                        !.status = status,
                        !.body = IF status = 0 THEN None ELSE body,
                        !.path = path, !.kind = out.kind,
                        !.message = out.message, !.read = out.read,
                        !.value = out.value]
    /\ UNCHANGED <<settings, store, call>>

\* await client._request(method, path), answered by a response of some
\* status and body, or by none
client_request ==
    /\ \E status \in Statuses, path \in Paths :
       \E body \in IF status = 0 THEN {"empty"} ELSE Bodies :
        LET out == request_outcome(status, body, path)
        IN /\ Send("_request", access_token)
           /\ op' = [NoOp EXCEPT !.name = "_request", !.before = access_token,
                        !.status = status,
                        !.body = IF status = 0 THEN None ELSE body,
                        !.path = path, !.kind = out.kind,
                        !.message = out.message, !.read = out.read,
                        !.value = out.value]
    /\ UNCHANGED <<settings, access_token, store, call>>

\* close(), up to its await: aclose() marks the transport closed
close_begin ==
    /\ http.state = "open"
    /\ closing < MaxClosing
    /\ leaked < MaxLeaked
    /\ http' = [http EXCEPT !.state = "closed"]
    /\ closing' = closing + 1
    /\ op' = [NoOp EXCEPT !.name = "close"]
    /\ UNCHANGED <<settings, access_token, leaked, store, call, last_request>>

\* close(), after its await: self._client = None
close_end ==
    /\ closing > 0
    /\ closing' = closing - 1
    /\ leaked' = IF http.state = "open" THEN leaked + 1 ELSE leaked
    /\ http' = [state |-> "none", auth |-> None]
    /\ UNCHANGED <<settings, access_token, store, call, last_request, op>>

InitClient ==
    /\ InitCommon
    /\ ~settings.has_credentials
    /\ store = EmptyConfig

NextClient ==
    \/ client_login
    \/ logout
    \/ client_request
    \/ close_begin
    \/ close_end

SpecClient == InitClient /\ [][NextClient]_vars

\* ================================================================ claims
\* the text s is part of the error text
Contains(error, s) == \E i \in 1..Len(error) : error[i] = s

HasKey(result, key) == key \in DOMAIN result

\* success=false
Failed(result) == HasKey(result, "success") /\ result.success = FALSE

\* the call started with no token held
Unauthenticated(r) == r.pc # "idle" /\ ~is_authenticated(r.entry_token)

\* C1: a registered tool outside the authentication-exempt set, called with
\* no token held and no credentials configured, returns success=false with
\* an error text containing "auth_login", and its handler is not invoked.
C1_GateRefuses ==
    \A c \in Callers :
        LET r == call[c]
        IN (/\ Unauthenticated(r)
            /\ r.name \in list_tools
            /\ r.name \notin {"auth_login", "auth_status", "auth_logout"}
            /\ ~settings.has_credentials)
           => /\ r.pc = "done"
              /\ Failed(r.result)
              /\ Contains(r.result.error, "auth_login")
              /\ r.handled = 0
              /\ r.requests = 0

C1_Witness ==
    \E c \in Callers :
        /\ Unauthenticated(call[c])
        /\ call[c].name = "delete_workflow"
        /\ ~settings.has_credentials
        /\ call[c].pc = "done"

\* C2: an authentication-exempt tool (auth_login, auth_status, auth_logout)
\* called with no token held reaches the auth handler exactly once, without
\* the gate being consulted and without an auto-login, whether or not
\* credentials are configured.
C2_ExemptReachHandler ==
    \A c \in Callers :
        LET r == call[c]
        IN (/\ Unauthenticated(r)
            /\ r.name \in {"auth_login", "auth_status", "auth_logout"})
           => /\ r.handled = 1
              /\ r.gate = 0
              /\ r.auto_logins = 0

C2_Witness ==
    \E c \in Callers :
        /\ Unauthenticated(call[c])
        /\ call[c].name = "auth_status"
        /\ settings.has_credentials
        /\ call[c].pc = "done"
        /\ call[c].handled = 1

\* C3: an authentication-required tool called with no token held and
\* credentials configured: the gate makes exactly one login attempt in the
\* call; when the login succeeds the handler is invoked, and when it fails
\* the call returns success=false carrying the login's error message and
\* the handler is not invoked.
C3_OneAutoLogin ==
    \A c \in Callers :
        LET r == call[c]
        IN (/\ Unauthenticated(r)
            /\ r.name \in AUTHENTICATED_TOOL_NAMES
            /\ settings.has_credentials)
           => \/ /\ r.pc = "gate_login"
                 /\ r.auto_logins = 0
                 /\ r.handled = 0
              \/ /\ r.pc # "gate_login"
                 /\ r.auto_logins = 1
                 /\ r.posts = 1
                 /\ r.gate = 1
                 /\ IF r.login_raised = None
                    THEN r.handled = 1
                    ELSE /\ r.pc = "done"
                         /\ Failed(r.result)
                         /\ Contains(r.result.error, r.login_raised)
                         /\ r.handled = 0
                         /\ r.requests = 0

C3_Witness ==
    \E c \in Callers :
        /\ Unauthenticated(call[c])
        /\ call[c].name = "list_projects"
        /\ settings.has_credentials
        /\ call[c].pc = "done"
        /\ call[c].auto_logins = 1
        /\ call[c].login_raised = "Login failed: detail"

\* C4 as claimed: every exception raised while gating or dispatching a call
\* becomes a result with success=false and error set to the exception's
\* message.
C4_Original ==
    \A c \in Callers :
        LET r == call[c]
        IN (r.pc = "done" /\ r.raised # None)
           => /\ Failed(r.result)
              /\ Contains(r.result.error, r.raised)

\* C4 as amended: every exception raised while gating or dispatching a call
\* becomes a returned result whose error text carries the exception's
\* message; the result has success=false, except auth_status's, which has
\* authenticated=false in its place.  A call in which an exception was
\* raised is a call that has returned.
C4_FaultsBecomeResults ==
    \A c \in Callers :
        LET r == call[c]
        IN (r.raised # None)
           => /\ r.pc = "done"
              /\ HasKey(r.result, "error")
              /\ Contains(r.result.error, r.raised)
              /\ IF r.name = "auth_status"
                 THEN /\ HasKey(r.result, "authenticated")
                      /\ r.result.authenticated = FALSE
                 ELSE Failed(r.result)

C4_Witness ==
    \E c \in Callers :
        /\ call[c].pc = "done"
        /\ call[c].name = "create_state"
        /\ call[c].writes = 1
        /\ call[c].raised = "API error (500): detail"

\* C5: a name of neither the authentication-exempt nor the
\* authentication-required set gets an "unknown tool" error result; no
\* handler is invoked, no login attempted and no HTTP request issued in that
\* call, whatever the session state.
C5_UnknownTool ==
    \A c \in Callers :
        LET r == call[c]
        IN (/\ r.pc # "idle"
            /\ r.name \notin {"auth_login", "auth_status", "auth_logout"}
            /\ r.name \notin AUTHENTICATED_TOOL_NAMES)
           => /\ r.pc = "done"
              /\ HasKey(r.result, "error")
              /\ r.result.error = <<"Unknown tool: ", r.name>>
              /\ r.handled = 0
              /\ r.gate = 0
              /\ r.auto_logins = 0
              /\ r.posts = 0
              /\ r.requests = 0

C5_Witness ==
    \E c \in Callers :
        /\ call[c].pc = "done"
        /\ call[c].name = "unknown_tool"
        /\ Unauthenticated(call[c])
        /\ settings.has_credentials

\* C6: a tool call that returns an error returns success=false with it,
\* unless the result uses the key authenticated.
C6_ErrorHasSuccessFalse ==
    \A c \in Callers :
        LET r == call[c]
        IN (r.pc = "done" /\ HasKey(r.result, "error"))
           => \/ Failed(r.result)
              \/ HasKey(r.result, "authenticated")


\* every request of the call was answered 200
AllOk(r) == \A i \in 1..Len(r.log) : r.log[i].resp = "200"

\* the indices of the writes among the requests of the call
Puts(r) == {i \in 1..Len(r.log) : r.log[i].m = "PUT"}

\* the id occurs in the sequence
HasId(seq, id) == \E i \in 1..Len(seq) : seq[i].id = id

\* C7: two concurrent Adds of different records to the same project's
\* workflows, both fetches before either write: the stored array is the
\* second writer's (the fetched array plus its own record), the first
\* writer's record is lost, and both callers are told success.
C7_LostAdd ==
    \A c, d \in Callers :
        LET first == call[c]
            second == call[d]
            base == Get(second.fetched, "workflows")
        IN (/\ c # d
            /\ first.pc = "done" /\ second.pc = "done"
            /\ first.name = "create_workflow"
            /\ second.name = "create_workflow"
            /\ first.pending = {d}
            /\ AllOk(first) /\ AllOk(second)
            /\ first.args.id # second.args.id
            /\ ~HasId(base, first.args.id))
           => /\ first.fetched = second.fetched
              /\ Get(store, "workflows")
                    = Append(base, NewRecord(second.name, second.args))
              /\ ~HasId(Get(store, "workflows"), first.args.id)
              /\ HasId(Get(store, "workflows"), second.args.id)
              /\ first.result.success /\ ~HasKey(first.result, "error")
              /\ second.result.success /\ ~HasKey(second.result, "error")

C7_Witness ==
    \E c, d \in Callers :
        /\ c # d
        /\ call[c].pc = "done" /\ call[d].pc = "done"
        /\ call[c].name = "create_workflow"
        /\ call[d].name = "create_workflow"
        /\ call[c].pending = {d}
        /\ AllOk(call[c]) /\ AllOk(call[d])
        /\ call[c].args.id = NewId("workflows", "0000000b")
        /\ call[d].args.id = NewId("workflows", "0000000a")
        /\ Get(call[d].fetched, "workflows")
                = <<[id |-> NewId("workflows", "0000000a"), name |-> "n0"]>>
        /\ Len(Get(store, "workflows")) = 2

\* the body carries the whole document fetched, with the array arr set
WholeDocument(body, fetched, arr) ==
    /\ DOMAIN body = (DOMAIN fetched) \cup {arr}
    /\ \A k \in (DOMAIN fetched) \ {arr} : body[k] = fetched[k]

\* C9: a nested-collection mutation (Add, Update, Delete) issues at most one
\* write, the write carries the whole configuration document, and it is
\* issued only after every fetch of the call succeeded and, for an Update,
\* found the target id: when the fetch fails or the target is not found, no
\* write has been issued.
C9_AllOrNothing ==
    \A c \in Callers :
        LET r == call[c]
            arr == ArrayOf(r.name)
        IN (r.name \in AddTools \cup UpdateTools \cup DeleteTools)
           => /\ Cardinality(Puts(r)) <= 1
              /\ r.writes = Cardinality(Puts(r))
              /\ \A i \in Puts(r) :
                    /\ i = Len(r.log)
                    /\ \A j \in 1..(i - 1) :
                          r.log[j].m = "GET" /\ r.log[j].resp = "200"
              /\ (r.pc = "write" \/ Puts(r) # {})
                    => /\ WholeDocument(r.body, r.fetched, arr)
                       /\ r.name \in UpdateTools
                            => HasId(Get(r.fetched, arr), r.args.id)
              /\ (/\ r.pc = "done"
                  /\ \/ \E j \in 1..Len(r.log) :
                            r.log[j].m = "GET" /\ r.log[j].resp # "200"
                     \/ /\ r.name \in UpdateTools
                        /\ r.log # <<>>
                        /\ ~HasId(Get(r.fetched, arr), r.args.id))
                    => /\ Puts(r) = {}
                       /\ Failed(r.result)

C9_Witness ==
    \E c \in Callers :
        /\ call[c].pc = "done"
        /\ call[c].name = "update_workflow"
        /\ Len(call[c].log) = 2
        /\ AllOk(call[c])
        /\ ~HasId(Get(call[c].fetched, "workflows"), call[c].args.id)
        /\ call[c].writes = 0

\* C10: Delete with the same id twice in sequence: on a transition the
\* first returns success and the second a "not found" failure; on a
\* workflow, state or image both return success; the stored array after the
\* second call equals the stored array after the first.
C10_DeleteTwice ==
    \A c \in Callers :
        LET r == call[c]
            arr == ArrayOf(r.name)
        IN (r.pc = "done" /\ r.name \in DeleteTools /\ AllOk(r))
           => /\ (r.name # "delete_transition"
                    \/ HasId(Get(r.fetched, arr), r.args.id))
                    => r.result.success
              /\ (r.prev.name = r.name /\ r.prev.id = r.args.id
                    /\ r.prev.success)
                    => /\ Get(store, arr) = r.prev.after
                       /\ IF r.name = "delete_transition"
                          THEN /\ Failed(r.result)
                               /\ r.result.error =
                                    <<"Transition not found: ">> \o r.args.id
                               /\ r.writes = 0
                          ELSE r.result.success

C10_Witness ==
    \E c \in Callers :
        /\ call[c].pc = "done"
        /\ call[c].name = "delete_transition"
        /\ call[c].prev.name = "delete_transition"
        /\ call[c].prev.id = call[c].args.id
        /\ call[c].prev.after # <<>>
        /\ AllOk(call[c])
        /\ Failed(call[c].result)

\* C8: a request of the Request Executor carries an Authorization header
\* exactly when a token is held at the moment it is sent, and the header is
\* that token.
C8_HeaderIsCurrentToken ==
    /\ last_request.auth # None <=> is_authenticated(last_request.token)
    /\ is_authenticated(last_request.token)
            => last_request.auth = last_request.token

\* the call has its write ready or has issued it
Writes(r) == r.pc = "write" \/ Puts(r) # {}

\* the array arr of the document the call fetched: the empty array when the
\* field is absent
Fetched(r, arr) == IF arr \in DOMAIN r.fetched THEN r.fetched[arr] ELSE <<>>

\* C11: Update of a nested record fetches the project and writes the
\* document back with only the first element whose id is the target id
\* replaced by the supplied record: the array keeps its length and every
\* other element, in order.  When no element has the id the call fails with
\* "not found" and no write is issued.
C11_UpdateFirstMatch ==
    \A c \in Callers :
        LET r == call[c]
            arr == ArrayOf(r.name)
            old == Fetched(r, arr)
            new == r.body[arr]
        IN (r.name \in UpdateTools)
           => /\ Writes(r)
                    => /\ Len(new) = Len(old)
                       /\ \E i \in 1..Len(old) :
                            /\ old[i].id = r.args.id
                            /\ \A j \in 1..(i - 1) : old[j].id # r.args.id
                            /\ new[i].id = r.args.id
                            /\ new[i].name =
                                 IF r.args.name # Absent THEN r.args.name
                                 ELSE IF r.name = "update_transition"
                                      THEN old[i].name ELSE r.existing.name
                            /\ \A j \in 1..Len(old) : j # i => new[j] = old[j]
              /\ (r.pc = "done" /\ r.log # <<>> /\ AllOk(r)
                    /\ ~HasId(old, r.args.id))
                    => /\ Puts(r) = {}
                       /\ Failed(r.result)
                       /\ Contains(r.result.error, NotFoundMessage(arr))

C11_Witness ==
    \E c \in Callers :
        /\ call[c].pc = "done"
        /\ call[c].name = "update_state"
        /\ call[c].args.name = "n2"
        /\ AllOk(call[c])
        /\ call[c].writes = 1
        /\ Len(Fetched(call[c], "states")) = 2
        /\ Fetched(call[c], "states")[1].id = call[c].args.id
        /\ Fetched(call[c], "states")[2].id = call[c].args.id
        /\ store = call[c].body

\* C12: Add of a nested record fetches the project and writes back a
\* configuration whose target array is the fetched array (the empty array
\* when the field is absent) with the new record appended as the last
\* element: every record already there is kept in its place, and the record
\* is appended even when its id already occurs in the array.
C12_AddAppends ==
    \A c \in Callers :
        LET r == call[c]
            arr == ArrayOf(r.name)
            old == Fetched(r, arr)
            new == r.body[arr]
        IN (r.name \in AddTools /\ Writes(r))
           => /\ Len(new) = Len(old) + 1
              /\ \A i \in 1..Len(old) : new[i] = old[i]
              /\ new[Len(new)].id = r.args.id
              /\ new[Len(new)].name = r.args.name

C12_Witness ==
    \E c \in Callers :
        /\ call[c].pc = "done"
        /\ call[c].name = "create_workflow"
        /\ AllOk(call[c])
        /\ call[c].writes = 1
        /\ HasId(Fetched(call[c], "workflows"), call[c].args.id)
        /\ Len(Get(store, "workflows")) = 2

\* the delete operations of the adapter's collection layer
ClientDeletes == {"delete_workflow", "delete_state", "delete_image"}

\* the elements of old that stay, counted up to position i
Kept(old, id, i) == Cardinality({j \in 1..i : old[j].id # id})

\* C13: Delete of a nested record fetches the project and writes back a
\* configuration whose target array is the fetched array without the
\* elements whose id is the target id, the others kept in order.  For
\* delete_workflow, delete_state and delete_image, when no element has the
\* id the array written equals the array fetched and the call succeeds.
C13_DeleteRemovesAll ==
    \A c \in Callers :
        LET r == call[c]
            arr == ArrayOf(r.name)
            old == Fetched(r, arr)
            new == r.body[arr]
        IN (r.name \in DeleteTools)
           => /\ Writes(r)
                    => /\ ~HasId(new, r.args.id)
                       /\ Len(new) = Kept(old, r.args.id, Len(old))
                       /\ \A j \in 1..Len(old) :
                            old[j].id # r.args.id
                                => new[Kept(old, r.args.id, j)] = old[j]
              /\ (r.name \in ClientDeletes /\ r.pc = "done" /\ AllOk(r)
                    /\ Len(r.log) = 2 /\ ~HasId(old, r.args.id))
                    => /\ new = old
                       /\ r.writes = 1
                       /\ r.result.success

C13_Witness ==
    \E c \in Callers :
        /\ call[c].pc = "done"
        /\ call[c].name = "delete_image"
        /\ AllOk(call[c])
        /\ call[c].writes = 1
        /\ Len(Fetched(call[c], "images")) = 2
        /\ Len(call[c].body["images"]) = 1
        /\ call[c].body["images"][1].id # call[c].args.id

NamesArgument(result) ==
    /\ HasKey(result, "error")
    /\ \/ Contains(result.error, "argument is required")
       \/ Contains(result.error, "Email and password are required")

\* C15: when a required argument is missing or malformed no HTTP request of
\* any kind is issued during the tool call, and the handler returns
\* success=false with an error naming the argument.
C15_InvalidArgumentNoRequest ==
    \A c \in Callers :
        LET r == call[c]
        IN (r.pc # "idle" /\ r.name \in list_tools /\ r.args.valid # "ok")
           => /\ r.posts = 0
              /\ r.requests = 0
              /\ r.handled = 1
                    => /\ r.pc = "done"
                       /\ Failed(r.result)
                       /\ NamesArgument(r.result)

\* C16: is_authenticated is true exactly when a non-empty token is held:
\* right after construction iff the settings supply a non-empty access
\* token, and false after logout(); logout() clears the token and touches
\* nothing else: no transport is created and no request is sent.
C16_TokenHeld ==
    [][/\ op.name = "init"
            => (is_authenticated(access_token)
                    <=> settings.access_token \notin {None, ""})
       /\ is_authenticated(access_token')
            <=> (access_token' # None /\ access_token' # "")
       /\ (op'.name = "logout" /\ op' # op)
            => /\ access_token' = None
               /\ ~is_authenticated(access_token')
               /\ http' = http
               /\ last_request' = last_request
               /\ leaked' = leaked /\ closing' = closing
               /\ store' = store]_vars

C16_Witness ==
    /\ op.name = "logout"
    /\ op.before = "T1"
    /\ http.state = "open"
    /\ http.auth = "T1"
    /\ ~is_authenticated(access_token)

C18_KindByStatus ==
    (op.name = "_request" /\ op.status >= 400)
        => /\ op.kind # "return"
           /\ op.value = None
           /\ op.kind =
                CASE op.status = 401 -> "AuthenticationError"
                  [] op.status = 404 -> "NotFoundError"
                  [] op.status = 422 -> "ValidationError"
                  [] OTHER -> "QontinuiClientError"
           /\ op.status = 404 => Contains(op.message, op.path)
           /\ (op.status \notin {401, 404, 422} /\ op.body = "object_detail")
                => Contains(op.message, "reason")
           /\ (op.status \notin {401, 404, 422}
                    /\ op.body \in {"empty", "text"})
                => Contains(op.message, Text(op.body))

\* C19: on a 401 response _request raises AuthenticationError whatever the
\* body is (no content, not JSON, JSON without detail), and the body is not
\* decoded before it raises.
C19_Unauthorized ==
    (op.name = "_request" /\ op.status = 401)
        => /\ op.kind = "AuthenticationError"
           /\ op.message = <<"Authentication failed. Please login again.">>
           /\ ~op.read
           /\ op.value = None

C19_Witness ==
    /\ op.name = "_request"
    /\ op.status = 401
    /\ op.body = "text"
    /\ op.kind = "AuthenticationError"

\* C20: on a 422 response _request raises ValidationError for every body:
\* the message holds the detail field of the JSON body when there is one,
\* and a generic phrase when there is none or the body is not a JSON object.
C20_ValidationAnyBody ==
    (op.name = "_request" /\ op.status = 422)
        => /\ op.kind = "ValidationError"
           /\ IF op.body = "object_detail"
              THEN Contains(op.message, "reason")
              ELSE Contains(op.message, "Validation error")

\* C21: on a 204 response, and on a response below 400 that has no
\* content, _request returns an empty mapping: it does not raise, what it
\* returns is not None, and the body is not decoded.
C21_NoContent ==
    (/\ op.name = "_request"
     /\ op.status \in 1..399
     /\ (op.status = 204 \/ op.body = "empty"))
        => /\ op.kind = "return"
           /\ op.value = "{}"
           /\ op.value # None
           /\ ~op.read
           /\ op.message = <<>>

C21_Witness ==
    /\ op.name = "_request"
    /\ op.status = 204
    /\ op.body = "text"
    /\ op.kind = "return"
    /\ op.value = "{}"

\* C22: nothing is tried again: _request and login() each send one request,
\* and when the transport fails on that request the caller gets a
\* QontinuiClientError that carries the cause, from _request and from
\* login() alike.
C22_TransportFailureWrapped ==
    /\ (op.name = "_request" /\ op.status = 0)
            => /\ op.kind = "QontinuiClientError"
               /\ Contains(op.message, "Request failed: ")
               /\ Contains(op.message, "cause")
    /\ (op.name = "login" /\ op.resp = "transport")
            => /\ op.kind = "QontinuiClientError"
               /\ Contains(op.message, "cause")

\* C23: create_state called with a project id and a name and neither
\* is_initial nor is_final writes a state whose id is "state-" and 8 hex
\* characters, whose name is the name given, whose isInitial and isFinal
\* are false and whose position is (0.0, 0.0), and returns success with a
\* state object of that id and that name.
C23_CreateStateDefaults ==
    \A c \in Callers :
        LET r == call[c]
            new == Get(r.body, "states")
            rec == new[Len(new)]
        IN (/\ r.pc = "done" /\ r.name = "create_state" /\ AllOk(r)
            /\ "is_initial" \notin DOMAIN r.args
            /\ "is_final" \notin DOMAIN r.args)
           => /\ Len(new) > 0
              /\ rec.id = <<"state-", rec.id[2]>>
              /\ rec.id[2] \in Ids
              /\ rec.name = r.args.name
              /\ rec.isInitial = FALSE
              /\ rec.isFinal = FALSE
              /\ rec.position = [x |-> 0, y |-> 0]
              /\ r.result.success
              /\ ~HasKey(r.result, "error")
              /\ r.result.state = [id |-> rec.id, name |-> r.args.name]

C23_Witness ==
    \E c \in Callers :
        /\ call[c].pc = "done"
        /\ call[c].name = "create_state"
        /\ AllOk(call[c])
        /\ DOMAIN call[c].args = {"valid", "id", "name"}
        /\ call[c].args.name = "n1"
        /\ Len(Get(store, "states")) = 2
        /\ Get(store, "states")[2].isInitial = FALSE
        /\ call[c].result.state.id = <<"state-", "0000000b">>

\* C24: the tool name sets partition the registered tools: no name of the
\* authentication-exempt set is in the authentication-required set, every
\* registered name outside the auth group is in the required set, every
\* registered name is in the set of exactly one handler group, and that
\* group's handler has a branch for it, so that no call of a registered
\* name returns an "Unknown ... tool" result.
C24_ToolSetsPartition ==
    /\ AUTH_TOOL_NAMES \cap AUTHENTICATED_TOOL_NAMES = {}
    /\ (list_tools \ AUTH_TOOL_NAMES) \subseteq AUTHENTICATED_TOOL_NAMES
    /\ \A name \in list_tools :
        /\ Cardinality({g \in Groups : name \in GroupNames(g)}) = 1
        /\ name \in GroupNames(GroupOf(name))
        /\ name \in Branches(GroupOf(name))
    /\ \A c \in Callers :
        LET r == call[c]
        IN (r.name \in list_tools /\ r.pc # "idle")
           => /\ r.handled <= 1
              /\ r.handled = 1
                    => /\ r.group \in Groups
                       /\ r.name \in GroupNames(r.group)
              /\ r.pc = "done"
                    => ~(/\ HasKey(r.result, "error")
                         /\ \E g \in Groups \cup {"none"} :
                                r.result.error \in
                                    {UnknownTool(r.name).error,
                                     UnknownGroupTool(g, r.name).error})

C24_Witness ==
    \E c \in Callers :
        /\ call[c].pc = "done"
        /\ call[c].name = "cancel_execution"
        /\ call[c].group = "execution"
        /\ call[c].handled = 1
        /\ call[c].args.valid = "ok"
        /\ HasKey(call[c].result, "success")
        /\ call[c].result.success

\* C25: update_workflow and update_state change, in the document the
\* client fetched last before it writes, only the fields of the target
\* record that the arguments supply: the record written is that fetch's
\* record with the arguments merged in, and every other record is written
\* as that fetch had it, whatever another caller wrote between the
\* handler's fetch and the client's.
C25_UpdateFromLastFetch ==
    \A c \in Callers :
        LET r == call[c]
            arr == ArrayOf(r.name)
            old == Fetched(r, arr)
            new == Get(r.body, arr)
            i == FirstIndex(old, r.args.id)
        IN (r.name \in {"update_workflow", "update_state"} /\ Writes(r))
           => /\ i > 0
              /\ Len(new) = Len(old)
              /\ new[i] = Merge(old[i], r.args)
              /\ \A j \in 1..Len(old) : j # i => new[j] = old[j]

\* C26: when auth_login returns success=false the token held is the one
\* held when the call began, also when login() succeeded and the fetch of
\* the current user after it failed.
C26_FailedLoginKeepsToken ==
    \A c \in Callers :
        LET r == call[c]
        IN (r.name = "auth_login" /\ r.pc = "done" /\ Failed(r.result))
           => access_token = r.entry_token

\* the two documents hold the same arrays, an absent array read as empty
\* (config.get(arr, [])), and the same other keys
SameDocument(a, b) ==
    /\ \A k \in Arrays : Get(a, k) = Get(b, k)
    /\ (DOMAIN a) \ Arrays = (DOMAIN b) \ Arrays
    /\ \A k \in (DOMAIN a) \ Arrays : a[k] = b[k]

\* the call is a delete_workflow, delete_state or delete_image about to
\* write, and the array it fetched holds no element with the target id
NoOpDelete(r) ==
    /\ r.name \in ClientDeletes
    /\ r.pc = "write"
    /\ ~HasId(Fetched(r, ArrayOf(r.name)), r.args.id)

\* a delete_transition that was answered 200 and fetched no element with
\* the target id issues no write and fails
AbsentTransition(r) ==
    (/\ r.name = "delete_transition" /\ r.pc = "done" /\ AllOk(r)
     /\ ~HasId(Fetched(r, "transitions"), r.args.id))
        => /\ r.writes = 0
           /\ Puts(r) = {}
           /\ Failed(r.result)

C28_OtherKeysAsFetched ==
    \A c \in Callers :
        LET r == call[c]
            arr == ArrayOf(r.name)
            others == ((DOMAIN r.fetched) \cup (DOMAIN r.body)) \ {arr}
        IN (r.name \in AddTools \cup UpdateTools \cup DeleteTools
                /\ Writes(r))
           => \A k \in others :
                /\ k \in DOMAIN r.fetched
                /\ k \in DOMAIN r.body
                /\ r.body[k] = r.fetched[k]

C28_Witness ==
    \E c \in Callers :
        /\ call[c].pc = "done"
        /\ call[c].name = "delete_state"
        /\ AllOk(call[c])
        /\ Puts(call[c]) # {}
        /\ DOMAIN call[c].body = Arrays \cup {"version"}
        /\ call[c].body["states"] = <<>>
        /\ call[c].body["version"] = "1.0.0"
        /\ Len(call[c].body["workflows"]) = 2
        /\ store = call[c].body

\* C29: the token held changes only when login() succeeds, to the token
\* returned, and when logout() is called, to none.  No outcome of _request
\* (a 401, another error status, a transport failure) and no failed login
\* changes it: after a 401 is_authenticated is as it was before, and the
\* gate lets a later call through to its handler without a login of its
\* own.
C29_TokenChangesOnlyByLoginLogout ==
    [][/\ access_token' # access_token
            => \/ /\ op'.name = "login" /\ op'.resp = "200"
                  /\ access_token' = op'.value
               \/ op'.name = "logout" /\ access_token' = None
       /\ op'.name = "_request" => access_token' = access_token
       /\ (op'.name = "login" /\ op'.resp # "200")
            => access_token' = access_token
       /\ (op'.name = "_request" /\ op'.status = 401
                /\ is_authenticated(access_token))
            => /\ is_authenticated(access_token')
               /\ \A creds \in BOOLEAN :
                    LET r == ensure_authenticated(
                                [NewCall EXCEPT !.name = "list_projects"],
                                access_token', creds)
                    IN /\ r.handled = 1
                       /\ r.pc = "request"
                       /\ r.auto_logins = 0 /\ r.posts = 0]_vars

C29_Witness ==
    /\ op.name = "_request"
    /\ op.status = 401
    /\ op.before = "T1"
    /\ access_token = "T1"
    /\ is_authenticated(access_token)

\* C30: however close() interleaves with requests, every transport the
\* adapter created is still referenced by it or is closed: no open
\* transport is left without a reference, and close() does not drop the
\* reference to a transport a request opened while it awaited aclose().
C30_NoTransportDropped ==
    /\ leaked = 0
    /\ http.state \in {"none", "open", "closed"}

====
